---- MODULE Spec2Model ----
(***************************************************************************)
(* Model of scripts/kelly-montecarlo.py: the Kelly calculation (phase 2),  *)
(* the vectorised Monte Carlo engine run_mc_fast (phase 3) and the         *)
(* scenario transforms (phase 4).                                          *)
(*                                                                         *)
(* Numbers.  Returns are fractions of the invested capital; the model      *)
(* keeps them as integers in hundredths (-90 is -0.90).  Bankrolls and     *)
(* position sizes are integers in hundredths of a money unit and position  *)
(* sizes are whole units (multiples of 100), so that return * pos_size is  *)
(* exact.  The engine's arithmetic is exact.  The floats of the Kelly and    *)
(* risk-of-ruin phases are binary floats of FloatBits significant bits with *)
(* an unbounded exponent: every operation rounds its exact result to the    *)
(* nearest such float, ties to even, as IEEE 754 does at 53 bits.           *)
(***************************************************************************)
EXTENDS Integers, Sequences, FiniteSets

\* ------------------------------------------------------------------ bounds
MaxLen == 2        \* longest return sample of the engine's specifications
MaxSims == 2       \* largest n_sims
MaxTrades == 3     \* largest n_trades
MaxBr == 4         \* initial_br ranges over 50, 100, ..., 50 * MaxBr
MaxRows == 3       \* most ledger rows of the Kelly specification
FloatBits == 7     \* significant bits of a float (binary64 has 53)
MaxRuinRows == 5   \* most ledger rows of the risk-of-ruin specification
CalIters == 3      \* iterations of the bankroll search (20 at line 391)

\* The seed of line 200.
SEED == 42

VARIABLES
    rows,          \* the ledger rows of line 21: <<pnl_sol, sol_invested>>
    kpc,           \* position of the script in the Kelly phases
    win_rate,      \* line 43
    avg_win,       \* line 46
    avg_loss,      \* line 47
    p,             \* line 126
    q,             \* line 127
    b,             \* line 128
    kelly_full,    \* line 129
    b_pct,         \* line 144
    kelly_pct,     \* line 145
    needed_wr,     \* line 438
    needed_b,      \* line 439
    opt_bet,       \* line 445
    current_rug_rate, \* line 294
    max_consec_rugs,  \* line 359
    rug_table,     \* lines 366-368: for each n the printed pr and 1 / pr
    edge,          \* line 373
    ruin_branch,   \* lines 375-382: "formula", "negative", or "none" before
    ruin,          \* line 378
    cpc,           \* position of the script in the search of lines 387-402
    cal_ps,        \* line 387: ps
    found,         \* line 388
    lo_br,         \* line 390
    hi_br,         \* line 390
    mid_br,        \* line 392
    cal_it,        \* line 391: iterations of the search that have run
    probes,        \* the probes of the search: <<mid_br, p_bankruptcy>>
    report,        \* lines 399-402: what the search printed for ps
    returns_pct,   \* the Python list of line 54: the source sample
    heap,          \* the ndarray objects: object id -> sequence of returns
    ref,           \* the script's array variables: name -> object id or "none"
    err,           \* "none", or the exception that ended the script
    spc,           \* phase 4: the scenario statement the script runs next
    rr_i,          \* phase 4: index of target_rr in the list of line 298
    seed,          \* the argument of np.random.seed
    rng_pos,       \* draws consumed from the global generator since seeding
    returns,       \* run_mc_fast: object id of the `returns` argument
    initial_br,    \* run_mc_fast: argument
    pos_size,      \* run_mc_fast: argument
    n_sims,        \* run_mc_fast: argument
    n_trades,      \* run_mc_fast: argument
    bankrolls,     \* run_mc_fast: local array, 1..n_sims
    bankrupt,      \* run_mc_fast: local array, 1..n_sims
    min_br,        \* run_mc_fast: local array, 1..n_sims
    t,             \* run_mc_fast: loop index of line 218
    pc,            \* run_mc_fast: "idle", "loop", "agg", "returned"
    result,        \* run_mc_fast: the returned dict of the last call
    calls          \* the calls that returned: seed, stream position at entry, config, result

mcvars == <<returns, initial_br, pos_size, n_sims, n_trades, bankrolls,
            bankrupt, min_br, t, pc, result>>
kvars == <<rows, kpc, win_rate, avg_win, avg_loss, p, q, b, kelly_full,
           b_pct, kelly_pct, needed_wr, needed_b, opt_bet>>
scvars == <<returns_pct, heap, ref, err, spc, rr_i>>
p5vars == <<current_rug_rate, max_consec_rugs, rug_table, edge, ruin_branch,
            ruin>>
calvars == <<cpc, cal_ps, found, lo_br, hi_br, mid_br, cal_it, probes, report>>
vars == <<rows, kpc, win_rate, avg_win, avg_loss, p, q, b, kelly_full,
          b_pct, kelly_pct, needed_wr, needed_b, opt_bet, current_rug_rate,
          max_consec_rugs, rug_table, edge, ruin_branch, ruin, cpc, cal_ps,
          found, lo_br, hi_br, mid_br, cal_it, probes, report, returns_pct, heap,
          ref, err, spc, rr_i, seed, rng_pos, returns, initial_br, pos_size,
          n_sims, n_trades, bankrolls, bankrupt, min_br, t, pc, result, calls>>

\* ----------------------------------------------------------------- helpers
RECURSIVE SumSeq(_)
SumSeq(s) == IF s = <<>> THEN 0 ELSE Head(s) + SumSeq(Tail(s))

RECURSIVE CountTrue(_, _)
CountTrue(f, n) == IF n = 0 THEN 0 ELSE (IF f[n] THEN 1 ELSE 0) + CountTrue(f, n - 1)

Min2(x, y) == IF x <= y THEN x ELSE y
Max2(x, y) == IF x >= y THEN x ELSE y

\* The sequences over S of length 1..n.
SeqsUpTo(S, n) == UNION {[1..k -> S] : k \in 1..n}

\* np.sort of a 1-d array given as a function on 1..n.
RECURSIVE InsertSorted(_, _)
InsertSorted(x, s) ==
    IF s = <<>> THEN <<x>>
    ELSE IF x <= Head(s) THEN <<x>> \o s
    ELSE <<Head(s)>> \o InsertSorted(x, Tail(s))

RECURSIVE np_sort(_)
np_sort(s) == IF s = <<>> THEN <<>> ELSE InsertSorted(Head(s), np_sort(Tail(s)))

\* 100 * np.percentile(a, q) with the default linear interpolation: the
\* virtual index is q * (n - 1) / 100 counted from 0.
Percentile100(arr, pct) ==
    LET s == np_sort(arr)
        n == Len(s)
        k == (pct * (n - 1)) \div 100
        f == (pct * (n - 1)) % 100
    IN  IF k + 2 > n THEN 100 * s[k + 1]
        ELSE 100 * s[k + 1] + f * (s[k + 2] - s[k + 1])

\* ------------------------------------------------------------------ floats
\* A float is the fraction n / d in lowest terms with d > 0, or one of the
\* IEEE specials with d = 0: inf (n = 1), -inf (n = -1), nan (n = 0).  The
\* finite floats are the fractions m * 2^e with |m| < 2^FloatBits.
RECURSIVE GCD(_, _)
GCD(a, c) == IF c = 0 THEN a ELSE GCD(c, a % c)

Sgn(x) == IF x > 0 THEN 1 ELSE IF x < 0 THEN -1 ELSE 0
AbsInt(x) == IF x < 0 THEN -x ELSE x

\* n / d for integers n and d, d # 0.
Q(n, d) ==
    LET g == GCD(AbsInt(n), AbsInt(d))
    IN  [n |-> Sgn(d) * (n \div g), d |-> AbsInt(d) \div g]

\* The float nearest to (n / d) * (up / dn), for n, d > 0 and up / dn a power
\* of two: the fraction is scaled until its integer part has FloatBits bits
\* and is then rounded, ties to even.
RECURSIVE fl_norm(_, _, _, _)
fl_norm(n, d, up, dn) ==
    IF n >= d * 2^FloatBits THEN fl_norm(n, 2 * d, 2 * up, dn)
    ELSE IF n < d * 2^(FloatBits - 1) THEN fl_norm(2 * n, d, up, 2 * dn)
    ELSE LET m == n \div d
             r == n % d
             mm == IF 2 * r > d \/ (2 * r = d /\ m % 2 = 1) THEN m + 1 ELSE m
         IN  Q(mm * up, dn)

\* Rounding of an exact result to a float.
fl(x) ==
    IF x.d <= 0 \/ x.n = 0 THEN x
    ELSE LET y == fl_norm(AbsInt(x.n), x.d, 1, 1)
         IN  [n |-> Sgn(x.n) * y.n, d |-> y.d]

Inf == [n |-> 1, d |-> 0]
NaN == [n |-> 0, d |-> 0]
Zero == [n |-> 0, d |-> 1]
One == [n |-> 1, d |-> 1]
\* A variable no statement has assigned yet.
Unset == [n |-> 0, d |-> -1]

IsNaN(x) == x.d = 0 /\ x.n = 0
IsInf(x) == x.d = 0 /\ x.n # 0
IsFinite(x) == x.d > 0

FNeg(x) == [n |-> -x.n, d |-> x.d]
FAbs(x) == [n |-> AbsInt(x.n), d |-> x.d]

FAdd(x, y) ==
    IF IsNaN(x) \/ IsNaN(y) THEN NaN
    ELSE IF IsInf(x) /\ IsInf(y) THEN (IF x.n = y.n THEN x ELSE NaN)
    ELSE IF IsInf(x) THEN x
    ELSE IF IsInf(y) THEN y
    ELSE fl(Q(x.n * y.d + y.n * x.d, x.d * y.d))

FSub(x, y) == FAdd(x, FNeg(y))

FMul(x, y) ==
    IF IsNaN(x) \/ IsNaN(y) THEN NaN
    ELSE IF IsInf(x) \/ IsInf(y)
         THEN (IF x.n = 0 \/ y.n = 0 THEN NaN ELSE [n |-> Sgn(x.n) * Sgn(y.n), d |-> 0])
    ELSE fl(Q(x.n * y.n, x.d * y.d))

\* Float division where it does not raise: x / 0 is nan or +-inf as for
\* np.float64; a division of Python floats is guarded where it is used.
FDiv(x, y) ==
    IF IsNaN(x) \/ IsNaN(y) THEN NaN
    ELSE IF IsInf(y) THEN (IF IsInf(x) THEN NaN ELSE Zero)
    ELSE IF y.n = 0 THEN (IF x.n = 0 THEN NaN ELSE [n |-> Sgn(x.n), d |-> 0])
    ELSE IF IsInf(x) THEN [n |-> Sgn(x.n) * Sgn(y.n), d |-> 0]
    ELSE fl(Q(x.n * y.d, x.d * y.n))

\* x > 0, x <= 0 and x != 0: every comparison with nan but != is False.
Gt0(x) == ~IsNaN(x) /\ x.n > 0
Le0(x) == ~IsNaN(x) /\ x.n <= 0
Ne0(x) == IsNaN(x) \/ x.n # 0

\* np.mean of a list of integers; nan for the empty list.
np_mean(s) == IF Len(s) = 0 THEN NaN ELSE fl(Q(SumSeq(s), Len(s)))

\* Lines 37-38 and 61-62: [x for x in s if x > 0], [x for x in s if x <= 0].
IsWin(x) == x > 0
IsLoss(x) == x <= 0
wins_of(s) == SelectSeq(s, IsWin)
losses_of(s) == SelectSeq(s, IsLoss)

\* ------------------------------------------- Kelly (lines 33-64, 126-145, 437-453)
BANKROLL == fl(Q(116, 1000))

\* Line 33.
all_pnl(rs) == [k \in 1..Len(rs) |-> rs[k][1]]

\* Lines 54-59: pnl / invested of the rows with invested > 0, in hundredths.
RECURSIVE returns_of(_)
returns_of(rs) ==
    IF rs = <<>> THEN <<>>
    ELSE IF Head(rs)[2] > 0
         THEN <<(100 * Head(rs)[1]) \div Head(rs)[2]>> \o returns_of(Tail(rs))
    ELSE returns_of(Tail(rs))

\* Lines 46-47: np.mean(xs) if xs else 0.
mean_or_zero(xs) == IF Len(xs) > 0 THEN np_mean(xs) ELSE Zero

\* Line 128, without the abs: a mutant of payoff_ratio.
payoff_ratio_signed(aw, al) == IF Ne0(al) THEN FDiv(aw, al) ELSE Inf

\* Lines 128 and 144: abs(avg_win / avg_loss) if avg_loss != 0 else float('inf').
payoff_ratio(aw, al) == IF Ne0(al) THEN FAbs(FDiv(aw, al)) ELSE Inf

\* Lines 129 and 145: (p * b - q) / b if b > 0 else 0.
kelly_fraction(pp, qq, bb) == IF Gt0(bb) THEN FDiv(FSub(FMul(pp, bb), qq), bb) ELSE Zero

\* Line 135: the edge p * b - q that is printed.
kelly_edge == FSub(FMul(p, b), q)

KellyIdle ==
    /\ rows = <<>> /\ kpc = "off"
    /\ win_rate = Unset /\ avg_win = Unset /\ avg_loss = Unset
    /\ p = Unset /\ q = Unset /\ b = Unset /\ kelly_full = Unset
    /\ b_pct = Unset /\ kelly_pct = Unset
    /\ needed_wr = Unset /\ needed_b = Unset /\ opt_bet = Unset

\* Phase 5 has not run.
P5Idle ==
    /\ current_rug_rate = Unset /\ max_consec_rugs = 0 /\ rug_table = <<>>
    /\ edge = Unset /\ ruin_branch = "none" /\ ruin = Unset

\* The search of lines 387-402 has not run.
CalIdle ==
    /\ cpc = "off" /\ cal_ps = 0 /\ found = FALSE
    /\ lo_br = 0 /\ hi_br = 0 /\ mid_br = 0 /\ cal_it = 0
    /\ probes = <<>> /\ report = "none"

\* Lines 33-64: the distribution of the trades.
Phase1 ==
    /\ kpc = "phase1"
    /\ win_rate' = fl(Q(Len(wins_of(all_pnl(rows))), Len(rows)))
    /\ avg_win' = mean_or_zero(wins_of(all_pnl(rows)))
    /\ avg_loss' = mean_or_zero(losses_of(all_pnl(rows)))
    /\ returns_pct' = returns_of(rows)
    /\ kpc' = "phase2"
    /\ UNCHANGED <<rows, p, q, b, kelly_full, b_pct, kelly_pct, needed_wr,
                   needed_b, opt_bet, p5vars, calvars, heap, ref, err, spc,
                   rr_i, seed, rng_pos, mcvars, calls>>

\* Lines 126-145: the Kelly fraction on absolute pnl and on returns.
Phase2 ==
    /\ kpc = "phase2"
    /\ p' = win_rate
    /\ q' = FSub(One, p')
    /\ b' = payoff_ratio(avg_win, avg_loss)
    /\ kelly_full' = kelly_fraction(p', q', b')
    /\ b_pct' = payoff_ratio(np_mean(wins_of(returns_pct)),
                             np_mean(losses_of(returns_pct)))
    /\ kelly_pct' = kelly_fraction(p', q', b_pct')
    /\ kpc' = "phase34"
    /\ UNCHANGED <<rows, win_rate, avg_win, avg_loss, needed_wr, needed_b,
                   opt_bet, p5vars, calvars, scvars, seed, rng_pos, mcvars, calls>>

\* Lines 437-453: the break-even figures or the optimal bet, then the summary
\* of line 453, where q / p divides Python floats and raises for p = 0.
Phase6 ==
    /\ kpc = "phase6"
    /\ IF Le0(kelly_full)
       THEN /\ needed_wr' = IF Gt0(b) THEN FDiv(One, FAdd(b, One)) ELSE One
            /\ needed_b' = IF Gt0(p) THEN FDiv(q, p) ELSE Inf
            /\ UNCHANGED opt_bet
       ELSE /\ opt_bet' = FMul(kelly_full, BANKROLL)
            /\ UNCHANGED <<needed_wr, needed_b>>
    /\ err' = IF p.n = 0 THEN "ZeroDivisionError" ELSE "none"
    /\ kpc' = "done"
    /\ UNCHANGED <<rows, win_rate, avg_win, avg_loss, p, q, b, kelly_full,
                   b_pct, kelly_pct, p5vars, calvars, returns_pct, heap, ref,
                   spc, rr_i, seed, rng_pos, mcvars, calls>>

\* ------------------------------------------------- run_mc_fast (lines 206-252)
\* Inputs of the engine's specifications.
ReturnValues == {-100, -50, 50}
Samples == SeqsUpTo(ReturnValues, MaxLen)
Bankrolls == {50 * k : k \in 1..MaxBr}
PosSizes == {100, 200}

Paths == 1..n_sims

\* Mutant of pnls: twice the position is at stake.
pnls_doubled(r, ps) == (r * ps * 2) \div 100

\* Line 211: pnls = sampled_returns * pos_size, for one sampled return.
pnls(r, ps) == (r * ps) \div 100

\* Mutant of still_alive: a path trades only while every path can.
still_alive_coupled(bk, br, ps) ==
    [i \in DOMAIN br |-> ~bk[i] /\ \A j \in DOMAIN br : br[j] >= ps]

\* Line 220: still_alive = ~bankrupt & (bankrolls >= pos_size).
still_alive(bk, br, ps) == [i \in DOMAIN br |-> ~bk[i] /\ br[i] >= ps]

\* Mutant of add_pnls: the pnl is subtracted.
add_pnls_subtracted(br, sa, pn) == [i \in DOMAIN br |-> IF sa[i] THEN br[i] - pn[i] ELSE br[i]]

\* Line 221: bankrolls[still_alive] += pnls[still_alive, t].
add_pnls(br, sa, pn) == [i \in DOMAIN br |-> IF sa[i] THEN br[i] + pn[i] ELSE br[i]]

\* Mutant of new_bankrupt: a path is bankrupt when nothing is left.
new_bankrupt_empty(bk, br, ps) == [i \in DOMAIN br |-> ~bk[i] /\ br[i] <= 0]

\* Mutant of new_bankrupt: the comparison is reversed.
new_bankrupt_above(bk, br, ps) == [i \in DOMAIN br |-> ~bk[i] /\ br[i] > ps]

\* Mutant of new_bankrupt: <= in place of <.
new_bankrupt_le(bk, br, ps) == [i \in DOMAIN br |-> ~bk[i] /\ br[i] <= ps]

\* Line 223: new_bankrupt = ~bankrupt & (bankrolls < pos_size).
new_bankrupt(bk, br, ps) == [i \in DOMAIN br |-> ~bk[i] /\ br[i] < ps]

\* Mutant of or_bankrupt: = in place of |=.
or_bankrupt_assigned(bk, nb) == nb

\* Line 224: bankrupt |= new_bankrupt.
or_bankrupt(bk, nb) == [i \in DOMAIN bk |-> bk[i] \/ nb[i]]

\* Mutant of track_min: the minimum is taken for every path.
track_min_all(mb, bk, br) == [i \in DOMAIN mb |-> Min2(mb[i], br[i])]

\* Lines 226-227: min_br[alive_mask] = np.minimum(min_br[alive_mask], bankrolls[alive_mask]).
track_min(mb, bk, br) == [i \in DOMAIN mb |-> IF ~bk[i] THEN Min2(mb[i], br[i]) ELSE mb[i]]

\* Mutant of zero_bankrupt: the bankrupt paths keep their residue.
zero_bankrupt_skipped(br, bk) == br

\* Line 230: bankrolls[bankrupt] = 0.
zero_bankrupt(br, bk) == [i \in DOMAIN br |-> IF bk[i] THEN 0 ELSE br[i]]

\* np.mean of a boolean array, as the fraction num / den.
mean_bool(f, n) == [num |-> CountTrue(f, n), den |-> n]

\* Mutant of mc_result: p_double counts the paths that hold at least initial_br.
mc_result_par(br, bk, ib, n) ==
    LET s == [i \in 1..n |-> br[i]]
    IN  [p_bankruptcy |-> mean_bool(bk, n),
         p_profit |-> mean_bool([i \in 1..n |-> br[i] > ib], n),
         p_double |-> mean_bool([i \in 1..n |-> br[i] >= ib], n),
         median |-> Percentile100(s, 50),
         mean |-> [num |-> SumSeq(s), den |-> n],
         p5 |-> Percentile100(s, 5),
         p95 |-> Percentile100(s, 95)]

\* Lines 232-252: the returned dict, computed from the zeroed bankrolls.
\* mean is the fraction num / den; median, p5 and p95 are 100 times the value.
mc_result(br, bk, ib, n) ==
    LET s == [i \in 1..n |-> br[i]]
    IN  [p_bankruptcy |-> mean_bool(bk, n),
         p_profit |-> mean_bool([i \in 1..n |-> br[i] > ib], n),
         p_double |-> mean_bool([i \in 1..n |-> br[i] >= ib * 2], n),
         median |-> Percentile100(s, 50),
         mean |-> [num |-> SumSeq(s), den |-> n],
         p5 |-> Percentile100(s, 5),
         p95 |-> Percentile100(s, 95)]

NoResult == [p_bankruptcy |-> [num |-> 0, den |-> 0]]

Config == [initial_br |-> initial_br, pos_size |-> pos_size,
           returns |-> heap[returns], n_sims |-> n_sims, n_trades |-> n_trades]

\* The state of the engine before its first call.
McIdle ==
    /\ returns = "none" /\ initial_br = 0 /\ pos_size = 0
    /\ n_sims = 0 /\ n_trades = 0
    /\ bankrolls = <<>> /\ bankrupt = <<>> /\ min_br = <<>>
    /\ t = 0 /\ pc = "idle" /\ result = NoResult

\* Lines 206-216: the call, up to the loop.  np.random.randint(0, 0, ...) raises
\* ValueError for an empty sample.  The n_sims * n_trades indices of line 209
\* are drawn here from the global generator; column t of idx is first read by
\* iteration t of the loop, where the model chooses it.  The caller says
\* where the script continues (spc, rr_i).
Enter(o, ib, ps, ns, nt) ==
    /\ pc \in {"idle", "returned"}
    /\ err = "none"
    /\ returns' = o /\ initial_br' = ib /\ pos_size' = ps
    /\ n_sims' = ns /\ n_trades' = nt
    /\ IF Len(heap[o]) = 0
       THEN /\ err' = "ValueError"
            /\ pc' = "raised"
            /\ UNCHANGED <<rng_pos, bankrolls, bankrupt, min_br, t, result>>
       ELSE /\ rng_pos' = rng_pos + ns * nt
            /\ bankrolls' = [i \in 1..ns |-> ib]
            /\ bankrupt' = [i \in 1..ns |-> FALSE]
            /\ min_br' = [i \in 1..ns |-> ib]
            /\ t' = 0
            /\ pc' = "loop"
            /\ result' = NoResult
            /\ UNCHANGED err
    /\ UNCHANGED <<kvars, p5vars, returns_pct, heap, ref, seed, calls>>

\* Lines 218-227: iteration t of the loop, for the column col = idx[:, t].
LoopBody(col) ==
    LET pn == [i \in Paths |-> pnls(heap[returns][col[i]], pos_size)]
        sa == still_alive(bankrupt, bankrolls, pos_size)
        br == add_pnls(bankrolls, sa, pn)
        nb == new_bankrupt(bankrupt, br, pos_size)
        bk == or_bankrupt(bankrupt, nb)
    IN  /\ bankrolls' = br
        /\ bankrupt' = bk
        /\ min_br' = track_min(min_br, bk, br)

LoopStep ==
    /\ pc = "loop"
    /\ t < n_trades
    /\ \E col \in [Paths -> 1..Len(heap[returns])] : LoopBody(col)
    /\ t' = t + 1
    /\ pc' = IF t + 1 = n_trades THEN "agg" ELSE "loop"
    /\ UNCHANGED <<kvars, p5vars, calvars, scvars, seed, rng_pos, returns,
                   initial_br, pos_size, n_sims, n_trades, result, calls>>

\* Lines 229-252: terminal aggregation and return.  With log, the call is
\* appended to calls, the record of what the script's calls returned.
Aggregate(log) ==
    /\ pc = "agg"
    /\ bankrolls' = zero_bankrupt(bankrolls, bankrupt)
    /\ result' = mc_result(bankrolls', bankrupt, initial_br, n_sims)
    /\ calls' = IF log
                THEN Append(calls, [seed |-> seed,
                                    drawn_from |-> rng_pos - n_sims * n_trades,
                                    config |-> Config, result |-> result'])
                ELSE calls
    /\ pc' = "returned"
    /\ UNCHANGED <<kvars, p5vars, calvars, scvars, seed, rng_pos, returns,
                   initial_br, pos_size, n_sims, n_trades, bankrupt, min_br, t>>

\* --------------------------------------------- specification of the engine
\* Lines 200-203: the generator is seeded once; returns_array is built from
\* returns_pct; then run_mc_fast is called on returns_array with any config.
\* A behaviour of this specification holds the first call after seeding.
InitMC ==
    /\ returns_pct \in Samples
    /\ heap = [o \in {"returns_array"} |-> returns_pct]
    /\ ref = [v \in {"returns_array"} |-> "returns_array"]
    /\ err = "none" /\ spc = "off" /\ rr_i = 0
    /\ seed = SEED /\ rng_pos = 0
    /\ calls = <<>>
    /\ McIdle
    /\ KellyIdle
    /\ P5Idle
    /\ CalIdle

CallMC ==
    \E ib \in Bankrolls, ps \in PosSizes, ns \in 1..MaxSims, nt \in 1..MaxTrades :
        /\ rng_pos = 0
        /\ Enter(ref["returns_array"], ib, ps, ns, nt)
        /\ UNCHANGED <<spc, rr_i, calvars>>

NextMC == CallMC \/ LoopStep \/ Aggregate(FALSE)

SpecMC == InitMC /\ [][NextMC]_vars

\* The calls of one script share the generator seeded at line 200: each call
\* draws on from where the one before stopped.
MaxCalls == 2

CallDet ==
    \E ib \in Bankrolls, ps \in PosSizes, ns \in 1..MaxSims, nt \in 1..MaxTrades :
        /\ Len(calls) < MaxCalls
        /\ Enter(ref["returns_array"], ib, ps, ns, nt)
        /\ UNCHANGED <<spc, rr_i, calvars>>

NextDet == CallDet \/ LoopStep \/ Aggregate(TRUE)

SpecDet == InitMC /\ [][NextDet]_vars

\* ------------------------------------ run_mc_fast as a function of its draws
\* Lines 209-252 for a given matrix idx (line 209): the loop of lines 218-227
\* with the operators of LoopBody, and the returned dict.  absorbed is the
\* iteration (from 1) that marked the path, 0 for a path never marked.
mc_start(ib, ns) ==
    [bankrolls |-> [i \in 1..ns |-> ib],
     bankrupt |-> [i \in 1..ns |-> FALSE],
     min_br |-> [i \in 1..ns |-> ib],
     absorbed |-> [i \in 1..ns |-> 0]]

mc_iter(st, k, ps, arr, idx) ==
    LET pn == [i \in DOMAIN st.bankrolls |-> pnls(arr[idx[i][k]], ps)]
        sa == still_alive(st.bankrupt, st.bankrolls, ps)
        br == add_pnls(st.bankrolls, sa, pn)
        nb == new_bankrupt(st.bankrupt, br, ps)
        bk == or_bankrupt(st.bankrupt, nb)
    IN  [bankrolls |-> br,
         bankrupt |-> bk,
         min_br |-> track_min(st.min_br, bk, br),
         absorbed |-> [i \in DOMAIN br |-> IF nb[i] THEN k ELSE st.absorbed[i]]]

RECURSIVE mc_loop(_, _, _, _, _, _)
mc_loop(st, k, nt, ps, arr, idx) ==
    IF k > nt THEN st
    ELSE mc_loop(mc_iter(st, k, ps, arr, idx), k + 1, nt, ps, arr, idx)

mc_run(ib, ps, arr, ns, nt, idx) ==
    LET st == mc_loop(mc_start(ib, ns), 1, nt, ps, arr, idx)
    IN  [initial_br |-> ib, pos_size |-> ps, idx |-> idx,
         bankrupt |-> st.bankrupt, absorbed |-> st.absorbed,
         result |-> mc_result(zero_bankrupt(st.bankrolls, st.bankrupt),
                              st.bankrupt, ib, ns)]

\* Two calls on returns_array that differ in initial_br only and sample the
\* same matrix idx, each as one step; calls records both.  One path is
\* followed: the paths of a call do not interact.
TwinCalls ==
    /\ pc = "idle" /\ calls = <<>>
    /\ \E ps \in PosSizes, nt \in 1..MaxTrades, ib1 \in Bankrolls, ib2 \in Bankrolls :
        \E idx \in [1..1 -> [1..nt -> 1..Len(heap[ref["returns_array"]])]] :
           /\ ib1 < ib2
           /\ calls' = <<mc_run(ib1, ps, heap[ref["returns_array"]], 1, nt, idx),
                         mc_run(ib2, ps, heap[ref["returns_array"]], 1, nt, idx)>>
    /\ UNCHANGED <<kvars, p5vars, calvars, scvars, seed, rng_pos, mcvars>>

NextTwin == TwinCalls

SpecTwin == InitMC /\ [][NextTwin]_vars

\* A call of run_mc_fast (line 206) whose pos_size is zero or negative.
NonPosSizes == {-100, 0}

CallNonPos ==
    \E ib \in Bankrolls, ps \in NonPosSizes, ns \in 1..MaxSims, nt \in 1..MaxTrades :
        /\ rng_pos = 0
        /\ Enter(ref["returns_array"], ib, ps, ns, nt)
        /\ UNCHANGED <<spc, rr_i, calvars>>

NextNonPos == CallNonPos \/ LoopStep \/ Aggregate(FALSE)

SpecNonPos == InitMC /\ [][NextNonPos]_vars

\* ------------------------------------------- scenario transforms (lines 283-327)
\* The arrays are objects of heap, named after the variable that first holds
\* them; ref maps the script's variables to their objects.
Alloc(h, o, val) == [x \in DOMAIN h \cup {o} |-> IF x = o THEN val ELSE h[x]]
Bind(r, v, o) == [x \in DOMAIN r \cup {v} |-> IF x = v THEN o ELSE r[x]]

RUG_CUTOFF == -90
RUG_CAP == -50
D_CUTOFF == -45
D_RATE == 5
TARGET_RR == <<10, 5, 2>>

\* Mutant of copy_of: no copy, the new name is bound to the source array.
copy_alias(o, fresh) == o

\* ndarray.copy() (lines 284, 310, 315): the object written by the statements
\* that follow is a fresh one.
copy_of(o, fresh) == fresh

\* Mutant of cap_rugs: <= in place of <.
cap_rugs_le(arr) ==
    [k \in 1..Len(arr) |-> IF arr[k] <= RUG_CUTOFF THEN RUG_CAP ELSE arr[k]]

\* Lines 285-287 and 316: arr[arr < -0.90] = -0.50.
cap_rugs(arr) ==
    [k \in 1..Len(arr) |-> IF arr[k] < RUG_CUTOFF THEN RUG_CAP ELSE arr[k]]

\* Mutant of scale_wins: every element is scaled, not only the wins.
scale_wins_all(arr) == [k \in 1..Len(arr) |-> (arr[k] * 3) \div 2]

\* Line 311: arr[arr > 0] *= 1.5.
scale_wins(arr) ==
    [k \in 1..Len(arr) |-> IF arr[k] > 0 THEN (arr[k] * 3) \div 2 ELSE arr[k]]

\* Boolean-mask indexing (lines 292, 318 and 293, 317): arr[arr < cut], arr[arr >= cut].
RECURSIVE select_lt(_, _)
select_lt(arr, cut) ==
    IF arr = <<>> THEN <<>>
    ELSE IF Head(arr) < cut THEN <<Head(arr)>> \o select_lt(Tail(arr), cut)
    ELSE select_lt(Tail(arr), cut)

RECURSIVE select_ge(_, _)
select_ge(arr, cut) ==
    IF arr = <<>> THEN <<>>
    ELSE IF Head(arr) >= cut THEN <<Head(arr)>> \o select_ge(Tail(arr), cut)
    ELSE select_ge(Tail(arr), cut)

\* Lines 300 and 319: max(1, int(n_total * target_rr)), target_rr in hundredths.
n_tail(n_total, rr) == Max2(1, (n_total * rr) \div 100)

\* np.random.choice(arr, size=size, replace=True): the arrays it can return;
\* it raises ValueError for an empty arr unless size is 0.
np_choice(arr, size) == [1..size -> {arr[k] : k \in 1..Len(arr)}]
choice_raises(arr, size) == Len(arr) = 0 /\ size > 0

\* The script is between two statements of phase 4 and has not raised.
ScriptReady == pc \in {"idle", "returned"} /\ err = "none"

src_array == heap[ref["returns_array"]]

\* Lines 284-287.
ScenarioA ==
    /\ spc = "A" /\ ScriptReady
    /\ LET o == copy_of(ref["returns_array"], "returns_a")
       IN  /\ heap' = Alloc(heap, o, cap_rugs(src_array))
           /\ ref' = Bind(ref, "returns_a", o)
    /\ spc' = "A_run"
    /\ UNCHANGED <<kvars, p5vars, calvars, returns_pct, err, rr_i, seed, rng_pos,
                   mcvars, calls>>

\* The calls of lines 289, 306, 312, 324 and 327.  The model runs them with a
\* bankroll of two positions, one path and one trade.
RunOn(v) == Enter(ref[v], 200, 100, 1, 1)

RunA == spc = "A_run" /\ RunOn("returns_a") /\ spc' = "B" /\ UNCHANGED <<rr_i, calvars>>

\* Lines 292-294.
ScenarioB ==
    /\ spc = "B" /\ ScriptReady
    /\ heap' = Alloc(Alloc(heap, "rug_returns", select_lt(src_array, RUG_CUTOFF)),
                     "non_rug_returns", select_ge(src_array, RUG_CUTOFF))
    /\ ref' = Bind(Bind(ref, "rug_returns", "rug_returns"),
                   "non_rug_returns", "non_rug_returns")
    /\ current_rug_rate' = Q(Len(select_lt(src_array, RUG_CUTOFF)), Len(src_array))
    /\ rr_i' = 1
    /\ spc' = "B_resample"
    /\ UNCHANGED <<kvars, max_consec_rugs, rug_table, edge, ruin_branch, ruin, calvars,
                   returns_pct, err, seed, rng_pos, mcvars, calls>>

\* Lines 299-305 and 319-323: n_total - n_rug draws from non, then n_rug draws
\* from rug, concatenated into the array named v; the first np.random.choice
\* that is given an empty array raises.
Resample(non, rug, n_total, n_rug, v, next) ==
    IF choice_raises(non, n_total - n_rug)
    THEN /\ err' = "ValueError"
         /\ UNCHANGED <<heap, ref, rng_pos, spc>>
    ELSE IF choice_raises(rug, n_rug)
    THEN /\ err' = "ValueError"
         /\ rng_pos' = rng_pos + (n_total - n_rug)
         /\ UNCHANGED <<heap, ref, spc>>
    ELSE /\ \E x \in np_choice(non, n_total - n_rug), y \in np_choice(rug, n_rug) :
                heap' = Alloc(heap, v, x \o y)
         /\ ref' = Bind(ref, v, v)
         /\ rng_pos' = rng_pos + n_total
         /\ spc' = next
         /\ UNCHANGED err

\* Lines 299-305, for target_rr = TARGET_RR[rr_i].
ResampleB ==
    /\ spc = "B_resample" /\ ScriptReady
    /\ Resample(heap[ref["non_rug_returns"]], heap[ref["rug_returns"]],
                Len(src_array), n_tail(Len(src_array), TARGET_RR[rr_i]),
                "resampled", "B_run")
    /\ UNCHANGED <<kvars, p5vars, calvars, returns_pct, rr_i, seed, mcvars, calls>>

\* Line 306, and the next iteration of the loop of line 298.
RunB ==
    /\ spc = "B_run"
    /\ RunOn("resampled")
    /\ IF rr_i < Len(TARGET_RR)
       THEN spc' = "B_resample" /\ rr_i' = rr_i + 1
       ELSE spc' = "C" /\ UNCHANGED rr_i
    /\ UNCHANGED calvars

\* Lines 310-311.
ScenarioC ==
    /\ spc = "C" /\ ScriptReady
    /\ LET o == copy_of(ref["returns_array"], "returns_c")
       IN  /\ heap' = Alloc(heap, o, scale_wins(src_array))
           /\ ref' = Bind(ref, "returns_c", o)
    /\ spc' = "C_run"
    /\ UNCHANGED <<kvars, p5vars, calvars, returns_pct, err, rr_i, seed, rng_pos,
                   mcvars, calls>>

RunC == spc = "C_run" /\ RunOn("returns_c") /\ spc' = "D" /\ UNCHANGED <<rr_i, calvars>>

\* Lines 315-323.
ScenarioD ==
    /\ spc = "D" /\ ScriptReady
    /\ LET o == copy_of(ref["returns_array"], "returns_d")
           d == cap_rugs(src_array)
           h == Alloc(Alloc(Alloc(heap, o, d), "non_rug_d", select_ge(d, D_CUTOFF)),
                      "rug_d", select_lt(d, D_CUTOFF))
           r == Bind(Bind(Bind(ref, "returns_d", o), "non_rug_d", "non_rug_d"),
                     "rug_d", "rug_d")
           n_rug_5 == n_tail(Len(d), D_RATE)
       IN  IF choice_raises(h["non_rug_d"], Len(d) - n_rug_5)
           THEN /\ err' = "ValueError"
                /\ heap' = h /\ ref' = r
                /\ UNCHANGED <<rng_pos, spc>>
           ELSE IF choice_raises(h["rug_d"], n_rug_5)
           THEN /\ err' = "ValueError"
                /\ heap' = h /\ ref' = r
                /\ rng_pos' = rng_pos + (Len(d) - n_rug_5)
                /\ UNCHANGED spc
           ELSE /\ \E x \in np_choice(h["non_rug_d"], Len(d) - n_rug_5),
                      y \in np_choice(h["rug_d"], n_rug_5) :
                        heap' = Alloc(h, "resampled_d", x \o y)
                /\ ref' = Bind(r, "resampled_d", "resampled_d")
                /\ rng_pos' = rng_pos + Len(d)
                /\ spc' = "D_run"
                /\ UNCHANGED err
    /\ UNCHANGED <<kvars, p5vars, calvars, returns_pct, rr_i, seed, mcvars, calls>>

RunD == spc = "D_run" /\ RunOn("resampled_d") /\ spc' = "E" /\ UNCHANGED <<rr_i, calvars>>

\* Line 327.
RunE == spc = "E" /\ RunOn("non_rug_returns") /\ spc' = "end" /\ UNCHANGED <<rr_i, calvars>>

\* ------------------------------------------- specification of the scenarios
ScenValues == {-100, -90, -70, -20, 40}
ScenSamples == SeqsUpTo(ScenValues, MaxLen)

InitScen ==
    /\ returns_pct \in ScenSamples
    /\ heap = [o \in {"returns_array"} |-> returns_pct]
    /\ ref = [v \in {"returns_array"} |-> "returns_array"]
    /\ err = "none" /\ spc = "A" /\ rr_i = 0
    /\ seed = SEED /\ rng_pos = 0
    /\ calls = <<>>
    /\ McIdle
    /\ KellyIdle
    /\ P5Idle
    /\ CalIdle

NextScen ==
    \/ ScenarioA \/ RunA
    \/ ScenarioB \/ ResampleB \/ RunB
    \/ ScenarioC \/ RunC
    \/ ScenarioD \/ RunD
    \/ RunE
    \/ LoopStep \/ Aggregate(FALSE)

SpecScen == InitScen /\ [][NextScen]_vars

\* ------------------------------- phases 3 and 4 as one step (lines 200-327)
\* The specifications of the Kelly phases do not run phases 3 and 4 statement
\* by statement: Phase34 is their effect on what phases 5 and 6 read.  The
\* script gets through them unless one of their calls raises ValueError:
\* run_mc_fast on an empty array (lines 255 and 327) or np.random.choice on an
\* empty partition (lines 303-304 and 320-322).
Phase34Raises(arr) ==
    \/ Len(arr) = 0
    \/ LET n == Len(arr)
           rug == select_lt(arr, RUG_CUTOFF)
           non == select_ge(arr, RUG_CUTOFF)
           d == cap_rugs(arr)
       IN  \/ \E i \in 1..Len(TARGET_RR) :
                 \/ choice_raises(non, n - n_tail(n, TARGET_RR[i]))
                 \/ choice_raises(rug, n_tail(n, TARGET_RR[i]))
           \/ choice_raises(select_ge(d, D_CUTOFF), n - n_tail(n, D_RATE))
           \/ choice_raises(select_lt(d, D_CUTOFF), n_tail(n, D_RATE))
           \/ Len(non) = 0

\* Line 203 builds returns_array, line 294 sets current_rug_rate (the quotient
\* is kept exact).  The fifteen calls of run_mc_fast count one draw each, as
\* RunOn runs them, and each of the four resamplings draws Len(returns_pct)
\* times; the draws made before an exception are not counted.
Phase34 ==
    /\ kpc = "phase34"
    /\ heap' = Alloc(heap, "returns_array", returns_pct)
    /\ ref' = Bind(ref, "returns_array", "returns_array")
    /\ current_rug_rate' =
           IF Len(returns_pct) = 0 THEN current_rug_rate
           ELSE Q(Len(select_lt(returns_pct, RUG_CUTOFF)), Len(returns_pct))
    /\ IF Phase34Raises(returns_pct)
       THEN /\ err' = "ValueError"
            /\ kpc' = "raised"
            /\ UNCHANGED rng_pos
       ELSE /\ rng_pos' = rng_pos + (1 + 7 + 7) + 4 * Len(returns_pct)
            /\ kpc' = "phase5"
            /\ UNCHANGED err
    /\ UNCHANGED <<rows, win_rate, avg_win, avg_loss, p, q, b, kelly_full,
                   b_pct, kelly_pct, needed_wr, needed_b, opt_bet,
                   max_consec_rugs, rug_table, edge, ruin_branch, ruin, calvars,
                   returns_pct, spc, rr_i, seed, mcvars, calls>>

\* ------------------------------------------- risk of ruin (lines 357-383)
\* Lines 357-358.
position_size == fl(Q(15, 1000))
bankroll == fl(Q(116, 1000))

\* int(x) of a float x >= 0.
FInt(x) == x.n \div x.d

\* x ** n and 1 / x ** n for the table of lines 366-368; the powers of the
\* exact quotient current_rug_rate are kept exact.
rate_pow(x, n) == Q(x.n ^ n, x.d ^ n)
one_in(x, n) == Q(x.d ^ n, x.n ^ n)

\* Mutant of table_range: range(1, max_consec_rugs + 1).
table_range_short(m) == 1..m

\* Line 366: range(1, max_consec_rugs + 2).
table_range(m) == 1..(m + 1)

\* Line 373.
ruin_edge(pp, qq, aw, al) == FAdd(FMul(pp, aw), FMul(qq, al))

\* Line 378: ratio ** units for a ratio >= 0.  The power of two floats is
\* irrational in general, so it is kept as the power it is; what is read off
\* it is its position relative to 0 and 1, which base and exponent decide.
float_pow(x, y) == [base |-> x, exp |-> y]

\* Lines 357-383.  1 / pr raises ZeroDivisionError for a rug rate of 0 (line
\* 368), and so does bankroll / abs(avg_loss) at line 376 when avg_loss is the
\* int 0 of line 47, the average of no losses.
Phase5 ==
    /\ kpc = "phase5"
    /\ max_consec_rugs' = FInt(FDiv(bankroll, position_size))
    /\ IF current_rug_rate.n = 0
       THEN /\ err' = "ZeroDivisionError"
            /\ kpc' = "raised"
            /\ UNCHANGED <<rug_table, edge, ruin_branch, ruin>>
       ELSE /\ rug_table' = [n \in table_range(max_consec_rugs') |->
                                [pr |-> rate_pow(current_rug_rate, n),
                                 one_in |-> one_in(current_rug_rate, n)]]
            /\ edge' = ruin_edge(p, q, avg_win, avg_loss)
            /\ IF Gt0(edge')
               THEN IF Len(losses_of(all_pnl(rows))) = 0
                    THEN /\ err' = "ZeroDivisionError"
                         /\ kpc' = "raised"
                         /\ UNCHANGED <<ruin_branch, ruin>>
                    ELSE /\ ruin_branch' = "formula"
                         /\ ruin' = LET units == FDiv(bankroll, FAbs(avg_loss))
                                        ratio == FDiv(q, p)
                                    IN  float_pow(ratio, units)
                         /\ kpc' = "cal"
                         /\ UNCHANGED err
               ELSE /\ ruin_branch' = "negative"
                    /\ kpc' = "cal"
                    /\ UNCHANGED <<err, ruin>>
    /\ UNCHANGED <<rows, win_rate, avg_win, avg_loss, p, q, b, kelly_full,
                   b_pct, kelly_pct, needed_wr, needed_b, opt_bet,
                   current_rug_rate, calvars, returns_pct, heap, ref, spc, rr_i,
                   seed, rng_pos, mcvars, calls>>

\* Lines 385-408 in the specifications that do not run the search: it writes
\* no variable that phase 6 reads and raises nothing.
SearchSummary ==
    /\ kpc = "cal"
    /\ kpc' = "phase6"
    /\ UNCHANGED <<rows, win_rate, avg_win, avg_loss, p, q, b, kelly_full,
                   b_pct, kelly_pct, needed_wr, needed_b, opt_bet, p5vars,
                   calvars, scvars, seed, rng_pos, mcvars, calls>>

\* ---------------------------------------------- specification of the Kelly phases
PnlValues == {-2, -1, 0, 1, 2}
InvestedValues == {0, 1, 2}
Ledgers == SeqsUpTo(PnlValues \X InvestedValues, MaxRows)

InitKelly ==
    /\ rows \in Ledgers
    /\ kpc = "phase1"
    /\ win_rate = Unset /\ avg_win = Unset /\ avg_loss = Unset
    /\ p = Unset /\ q = Unset /\ b = Unset /\ kelly_full = Unset
    /\ b_pct = Unset /\ kelly_pct = Unset
    /\ needed_wr = Unset /\ needed_b = Unset /\ opt_bet = Unset
    /\ returns_pct = <<>>
    /\ heap = <<>> /\ ref = <<>>
    /\ err = "none" /\ spc = "off" /\ rr_i = 0
    /\ seed = SEED /\ rng_pos = 0
    /\ calls = <<>>
    /\ McIdle
    /\ P5Idle
    /\ CalIdle

NextKelly == Phase1 \/ Phase2 \/ Phase34 \/ Phase5 \/ SearchSummary \/ Phase6

SpecKelly == InitKelly /\ [][NextKelly]_vars

\* ------------------------------------- specification of the risk of ruin
\* The Kelly phases on longer ledgers of unit stakes, whose win rates are
\* not all halves and thirds.
RuinPnl == {-2, -1, 1, 2}
RuinLedgers == SeqsUpTo(RuinPnl \X {1}, MaxRuinRows)

InitRuin ==
    /\ rows \in RuinLedgers
    /\ kpc = "phase1"
    /\ win_rate = Unset /\ avg_win = Unset /\ avg_loss = Unset
    /\ p = Unset /\ q = Unset /\ b = Unset /\ kelly_full = Unset
    /\ b_pct = Unset /\ kelly_pct = Unset
    /\ needed_wr = Unset /\ needed_b = Unset /\ opt_bet = Unset
    /\ returns_pct = <<>>
    /\ heap = <<>> /\ ref = <<>>
    /\ err = "none" /\ spc = "off" /\ rr_i = 0
    /\ seed = SEED /\ rng_pos = 0
    /\ calls = <<>>
    /\ McIdle
    /\ P5Idle
    /\ CalIdle

SpecRuin == InitRuin /\ [][NextKelly]_vars

\* ------------------------------ minimum safe bankroll (lines 385-402)
\* Money in the search is counted in 1 / CalScale of the smallest position,
\* so that every midpoint of the CalIters halvings is an integer.  The list
\* of line 387 is scaled to two positions and the upper limit 5.0 of line 390
\* to 35 times the smaller one; a probe runs MaxSims paths (3000 at line 393)
\* of MaxTrades trades (NUM_TRADES).
CalScale == 2 ^ CalIters
CAL_POSITIONS == <<CalScale, 5 * CalScale>>
HI_BR == 35 * CalScale
LO_FACTOR == 5
TARGET_PCT == 5

\* Mutant of below_target: the target itself passes.
below_target_le(pb) == 100 * pb.num <= TARGET_PCT * pb.den

\* Line 394: r['p_bankruptcy'] < 0.05.
below_target(pb) == 100 * pb.num < TARGET_PCT * pb.den

\* Mutant of search_step: the bounds are exchanged.
search_step_swapped(lo, hi, fnd, mid, ok) ==
    IF ok THEN [lo |-> mid, hi |-> hi, found |-> TRUE]
    ELSE [lo |-> lo, hi |-> mid, found |-> fnd]

\* Mutant of search_step: a failing probe sets found as well.
search_step_found(lo, hi, fnd, mid, ok) ==
    IF ok THEN [lo |-> lo, hi |-> mid, found |-> TRUE]
    ELSE [lo |-> mid, hi |-> hi, found |-> TRUE]

\* Lines 394-398.
search_step(lo, hi, fnd, mid, ok) ==
    IF ok THEN [lo |-> lo, hi |-> mid, found |-> TRUE]
    ELSE [lo |-> mid, hi |-> hi, found |-> fnd]

\* Lines 399-402: the line printed for ps.
search_report(fnd, hi) ==
    IF fnd THEN [kind |-> "min bankroll", value |-> hi, note |-> "none"]
    ELSE [kind |-> "no safe bankroll", value |-> HI_BR, note |-> "strategy -EV"]

\* The index of ps in the list of line 387; 0 before the loop.
PsIndex == IF cal_ps = 0 THEN 0
           ELSE CHOOSE i \in 1..Len(CAL_POSITIONS) : CAL_POSITIONS[i] = cal_ps

\* Lines 387-390: the next ps of the list.
SearchStart ==
    /\ kpc = "cal" /\ cpc \in {"off", "reported"} /\ ScriptReady
    /\ PsIndex < Len(CAL_POSITIONS)
    /\ cal_ps' = CAL_POSITIONS[PsIndex + 1]
    /\ found' = FALSE
    /\ lo_br' = LO_FACTOR * cal_ps'
    /\ hi_br' = HI_BR
    /\ cal_it' = 0
    /\ probes' = <<>>
    /\ report' = "none"
    /\ cpc' = "probe"
    /\ UNCHANGED <<kvars, p5vars, mid_br, scvars, seed, rng_pos, mcvars, calls>>

\* Lines 392-393: the midpoint and the call of run_mc_fast.
SearchProbe ==
    /\ cpc = "probe"
    /\ mid_br' = (lo_br + hi_br) \div 2
    /\ Enter(ref["returns_array"], mid_br', cal_ps, MaxSims, MaxTrades)
    /\ cpc' = "update"
    /\ UNCHANGED <<cal_ps, found, lo_br, hi_br, cal_it, probes, report, spc, rr_i>>

\* Lines 394-398, and the end of the iteration of line 391.
SearchUpdate ==
    /\ cpc = "update" /\ pc = "returned"
    /\ LET nx == search_step(lo_br, hi_br, found, mid_br,
                             below_target(result.p_bankruptcy))
       IN  /\ lo_br' = nx.lo
           /\ hi_br' = nx.hi
           /\ found' = nx.found
    /\ probes' = Append(probes, [mid |-> mid_br, pb |-> result.p_bankruptcy])
    /\ cal_it' = cal_it + 1
    /\ cpc' = IF cal_it + 1 = CalIters THEN "report" ELSE "probe"
    /\ UNCHANGED <<kvars, p5vars, cal_ps, mid_br, report, scvars, seed, rng_pos,
                   mcvars, calls>>

\* Lines 399-402; after the last ps the script goes on to phase 6.
SearchReport ==
    /\ cpc = "report"
    /\ report' = search_report(found, hi_br)
    /\ cpc' = "reported"
    /\ kpc' = IF PsIndex = Len(CAL_POSITIONS) THEN "phase6" ELSE "cal"
    /\ UNCHANGED <<rows, win_rate, avg_win, avg_loss, p, q, b, kelly_full,
                   b_pct, kelly_pct, needed_wr, needed_b, opt_bet, p5vars,
                   cal_ps, found, lo_br, hi_br, mid_br, cal_it, probes, scvars,
                   seed, rng_pos, mcvars, calls>>

\* ------------------------------------------ specification of the search
\* The script from phase 1 to phase 6 on ledgers of unit stakes, with phases
\* 3 and 4 as one step and the search run probe by probe.
CalPnl == {-2, -1, 1, 2}
CalLedgers == SeqsUpTo(CalPnl \X {1}, 2)

InitCal ==
    /\ rows \in CalLedgers
    /\ kpc = "phase1"
    /\ win_rate = Unset /\ avg_win = Unset /\ avg_loss = Unset
    /\ p = Unset /\ q = Unset /\ b = Unset /\ kelly_full = Unset
    /\ b_pct = Unset /\ kelly_pct = Unset
    /\ needed_wr = Unset /\ needed_b = Unset /\ opt_bet = Unset
    /\ returns_pct = <<>>
    /\ heap = <<>> /\ ref = <<>>
    /\ err = "none" /\ spc = "off" /\ rr_i = 0
    /\ seed = SEED /\ rng_pos = 0
    /\ calls = <<>>
    /\ McIdle
    /\ P5Idle
    /\ CalIdle

NextCal ==
    \/ Phase1 \/ Phase2 \/ Phase34 \/ Phase5
    \/ SearchStart \/ SearchProbe \/ LoopStep \/ Aggregate(FALSE)
    \/ SearchUpdate \/ SearchReport
    \/ Phase6

SpecCal == InitCal /\ [][NextCal]_vars

\* ------------------------- specification of the search over any probe result
\* Lines 392-393 with the call of run_mc_fast as one step that returns any
\* p_bankruptcy k / ProbeSims: of the call only the returned estimate is kept.
\* ProbeSims (3000 at line 393) is the least number of paths for which an
\* estimate can equal the target 0.05.
ProbeSims == 20
ProbeCounts == {0, 1, 2}

ProbeSummary ==
    /\ cpc = "probe"
    /\ pc \in {"idle", "returned"} /\ err = "none"
    /\ mid_br' = (lo_br + hi_br) \div 2
    /\ returns' = ref["returns_array"]
    /\ initial_br' = mid_br' /\ pos_size' = cal_ps
    /\ n_sims' = ProbeSims /\ n_trades' = MaxTrades
    /\ rng_pos' = rng_pos + ProbeSims * MaxTrades
    /\ \E k \in ProbeCounts :
           result' = [p_bankruptcy |-> [num |-> k, den |-> ProbeSims]]
    /\ pc' = "returned"
    /\ cpc' = "update"
    /\ UNCHANGED <<kvars, p5vars, cal_ps, found, lo_br, hi_br, cal_it, probes,
                   report, scvars, seed, bankrolls, bankrupt, min_br, t, calls>>

NextSearch ==
    \/ Phase1 \/ Phase2 \/ Phase34 \/ Phase5
    \/ SearchStart \/ ProbeSummary \/ SearchUpdate \/ SearchReport
    \/ Phase6

SpecSearch == InitCal /\ [][NextSearch]_vars

\* ---------------------------------- specification of the search's floats
\* Lines 387-402 on floats: ps, lo_br, hi_br and mid_br are the floats of the
\* script, rounded as every float of the Kelly phases is, each call of
\* run_mc_fast is one step that returns any estimate, and the ledger is left
\* out.
BracketPositions ==
    <<fl(Q(5, 1000)), fl(Q(10, 1000)), fl(Q(15, 1000)), fl(Q(20, 1000))>>
FIVE == Q(5, 1)
TWO == Q(2, 1)

\* Mutant of bracket_mid: the sum is divided by 3.
bracket_third(lo, hi) == FDiv(FAdd(lo, hi), Q(3, 1))

\* Line 392: (lo_br + hi_br) / 2.
bracket_mid(lo, hi) == FDiv(FAdd(lo, hi), TWO)

BracketIndex ==
    IF cpc = "off" THEN 0
    ELSE CHOOSE i \in 1..Len(BracketPositions) : BracketPositions[i] = cal_ps

\* Lines 387-390.
BracketStart ==
    /\ cpc \in {"off", "reported"}
    /\ BracketIndex < Len(BracketPositions)
    /\ cal_ps' = BracketPositions[BracketIndex + 1]
    /\ found' = FALSE
    /\ lo_br' = FMul(cal_ps', FIVE)
    /\ hi_br' = FIVE
    /\ cal_it' = 0
    /\ probes' = <<>>
    /\ report' = "none"
    /\ cpc' = "probe"
    /\ UNCHANGED <<kvars, p5vars, mid_br, scvars, seed, rng_pos, mcvars, calls>>

\* Lines 392-393, the call as one step.
BracketProbe ==
    /\ cpc = "probe"
    /\ mid_br' = bracket_mid(lo_br, hi_br)
    /\ initial_br' = mid_br' /\ pos_size' = cal_ps
    /\ n_sims' = ProbeSims /\ n_trades' = MaxTrades
    /\ rng_pos' = rng_pos + ProbeSims * MaxTrades
    /\ \E k \in ProbeCounts :
           result' = [p_bankruptcy |-> [num |-> k, den |-> ProbeSims]]
    /\ pc' = "returned"
    /\ cpc' = "update"
    /\ UNCHANGED <<kvars, p5vars, cal_ps, found, lo_br, hi_br, cal_it, probes,
                   report, scvars, seed, returns, bankrolls, bankrupt, min_br,
                   t, calls>>

\* Lines 399-402.
BracketReport ==
    /\ cpc = "report"
    /\ report' = [search_report(found, hi_br) EXCEPT
                     !.value = IF found THEN hi_br ELSE FIVE]
    /\ cpc' = "reported"
    /\ UNCHANGED <<kvars, p5vars, cal_ps, found, lo_br, hi_br, mid_br, cal_it,
                   probes, scvars, seed, rng_pos, mcvars, calls>>

InitBracket ==
    /\ returns_pct = <<>>
    /\ heap = <<>> /\ ref = <<>>
    /\ err = "none" /\ spc = "off" /\ rr_i = 0
    /\ seed = SEED /\ rng_pos = 0
    /\ calls = <<>>
    /\ McIdle
    /\ KellyIdle
    /\ P5Idle
    /\ CalIdle

NextBracket == BracketStart \/ BracketProbe \/ SearchUpdate \/ BracketReport

SpecBracket == InitBracket /\ [][NextBracket]_vars

\* ------------------------------------------------------------------ claims
AllPositive(s) == \A k \in 1..Len(s) : s[k] > 0
InCall == pc \in {"loop", "agg", "returned"}
ValidConfig == initial_br >= pos_size /\ pos_size > 0 /\ n_sims >= 1 /\ n_trades >= 1

\* C1: with an all-positive return sample and a valid config, no path is
\* bankrupt at any step of run_mc_fast and p_bankruptcy is 0.
C1_NoBankruptcyOnPositiveSample ==
    (InCall /\ AllPositive(heap[returns]) /\ ValidConfig) =>
        /\ \A i \in Paths : ~bankrupt[i]
        /\ pc = "returned" => result.p_bankruptcy = [num |-> 0, den |-> n_sims]

C1_Witness ==
    /\ pc = "returned" /\ AllPositive(heap[returns]) /\ ValidConfig
    /\ initial_br = pos_size /\ n_trades >= 2 /\ n_sims >= 2
    /\ result.p_bankruptcy.num = 0

\* C2: any two calls of run_mc_fast made with the same seed and the same
\* config returned the same result.
C2_SameSeedSameConfigSameResult ==
    \A i, j \in 1..Len(calls) :
        (calls[i].seed = calls[j].seed /\ calls[i].config = calls[j].config)
            => calls[i].result = calls[j].result

\* C3: inside the loop, a path whose bankrupt flag is set keeps the flag and
\* its bankroll through every later iteration.
C3_BankruptcyAbsorbing ==
    [][pc = "loop" =>
        \A i \in Paths : bankrupt[i] => (bankrupt'[i] /\ bankrolls'[i] = bankrolls[i])]_vars

\* The only return is -50: the path is absorbed by iteration 0 at 0.5 units
\* and two more iterations have run.
C3_Witness ==
    /\ pc = "loop" /\ t = 2
    /\ heap[returns] = <<-50>> /\ initial_br = 100 /\ pos_size = 100 /\ bankrupt[1] /\ bankrolls[1] = 50

\* C4: an iteration marks a path bankrupt exactly when the path was not
\* bankrupt before it and its bankroll after the update is below pos_size; a
\* path that holds exactly pos_size is not bankrupt and the next iteration
\* applies a sampled pnl to it.
C4_BankruptExactlyBelowPosSize ==
    [][pc = "loop" =>
        \A i \in Paths :
            /\ (~bankrupt[i] /\ bankrupt'[i]) <=> (~bankrupt[i] /\ bankrolls'[i] < pos_size)
            /\ (~bankrupt[i] /\ bankrolls'[i] = pos_size) => ~bankrupt'[i]
            /\ (~bankrupt[i] /\ bankrolls[i] = pos_size) =>
                   \E k \in 1..Len(heap[returns]) :
                       bankrolls'[i] = bankrolls[i] + pnls(heap[returns][k], pos_size)]_vars

\* The only return is -50: iteration 0 leaves exactly pos_size, iteration 1
\* updates the path again and absorbs it.
C4_Witness ==
    /\ InCall
    /\ heap[returns] = <<-50>> /\ initial_br = 150 /\ pos_size = 100
    /\ t = 2 /\ bankrupt[1] /\ bankrolls[1] = 50 /\ min_br[1] = 100

\* C5: terminal aggregation sets the bankroll of every bankrupt path to 0,
\* leaves the bankroll of every other path as the loop left it, and returns
\* p_bankruptcy = (number of bankrupt paths) / n_sims.
C5_TerminalAggregation ==
    [][pc = "agg" =>
        /\ \A i \in Paths : bankrolls'[i] = IF bankrupt[i] THEN 0 ELSE bankrolls[i]
        /\ result'.p_bankruptcy =
               [num |-> Cardinality({i \in Paths : bankrupt[i]}), den |-> n_sims]]_vars

\* A path absorbed at a residue of 0.5 units is returned as 0 beside a path
\* that survived.
C5_Witness ==
    /\ pc = "returned"
    /\ heap[returns] = <<-50, 50>> /\ initial_br = 100 /\ pos_size = 100
    /\ \E i, j \in Paths : bankrupt[i] /\ bankrolls[i] = 0 /\ ~bankrupt[j] /\ bankrolls[j] > 100
    /\ result.p_bankruptcy = [num |-> 1, den |-> 2]

\* The sign of a float: -1, 0, 1, or "nan".
FSign(x) == IF IsNaN(x) THEN "nan" ELSE Sgn(x.n)

KellyComputed == kpc \in {"phase34", "phase5", "cal", "phase6", "done", "raised"}
NoWins == Len(wins_of(all_pnl(rows))) = 0
NoLosses == Len(losses_of(all_pnl(rows))) = 0
NonDegenerateSample == KellyComputed /\ ~NoWins /\ ~NoLosses /\ avg_loss.n # 0
DegenerateSample == KellyComputed /\ (NoWins \/ NoLosses \/ avg_loss.n = 0)

\* C6: for a sample with a win, a loss and a non-zero average loss,
\* kelly_full is negative, zero or positive as the edge p * b - q is.
C6_KellySignIsEdgeSign ==
    NonDegenerateSample =>
        /\ FSign(kelly_full) \in {-1, 0, 1}
        /\ FSign(kelly_full) = FSign(kelly_edge)

\* A sample with wins and losses and a negative edge.
C6_Witness ==
    /\ kpc = "done" /\ NonDegenerateSample
    /\ FSign(kelly_edge) = -1 /\ FSign(kelly_full) = -1

\* The tagged outcome the claim speaks of: a value that is no float.
DegenerateMarker == [n |-> 0, d |-> -2]
IsInfOrNaN(x) == IsInf(x) \/ IsNaN(x)

\* C7: for a sample without losses (average loss 0) or without wins, from
\* phase 2 on b and kelly_full are the degenerate marker, no division by
\* zero is raised, and no inf or nan is held by the Kelly fractions or the
\* break-even figures.
C7_DegenerateIsTagged ==
    DegenerateSample =>
        /\ b = DegenerateMarker
        /\ kelly_full = DegenerateMarker
        /\ err # "ZeroDivisionError"
        /\ \A x \in {b_pct, kelly_pct, needed_wr, needed_b, opt_bet} : ~IsInfOrNaN(x)

Bound(v) == v \in DOMAIN ref
CountBelow(arr, cut) == Cardinality({k \in 1..Len(arr) : arr[k] < cut})

\* C8 as claimed: the array of scenario A has no element below the floor
\* -0.50, and every element of the source above the floor is unchanged at its
\* position.
C8_CapClampsToFloor ==
    Bound("returns_a") =>
        LET a == heap[ref["returns_a"]]
        IN  /\ Len(a) = Len(returns_pct)
            /\ \A k \in 1..Len(a) : a[k] >= RUG_CAP
            /\ \A k \in 1..Len(a) : returns_pct[k] > RUG_CAP => a[k] = returns_pct[k]

\* C8 as amended: scenario A replaces every element below the cutoff -0.90
\* by -0.50 and leaves every element >= -0.90 unchanged at its position, so
\* the minimum of the result is >= -0.90 and every element above -0.50 is
\* unchanged.
C8_CapReplacesBelowCutoff ==
    Bound("returns_a") =>
        LET a == heap[ref["returns_a"]]
        IN  /\ Len(a) = Len(returns_pct)
            /\ \A k \in 1..Len(a) :
                   /\ returns_pct[k] < RUG_CUTOFF => a[k] = RUG_CAP
                   /\ returns_pct[k] >= RUG_CUTOFF => a[k] = returns_pct[k]
                   /\ a[k] >= RUG_CUTOFF
                   /\ returns_pct[k] > RUG_CAP => a[k] = returns_pct[k]

\* A full loss is capped beside a loss of 0.70 that is kept.
C8_Witness ==
    /\ Bound("returns_a")
    /\ returns_pct = <<-100, -70>>
    /\ heap[ref["returns_a"]] = <<-50, -70>>

\* C9: no statement of the scenarios and no step of run_mc_fast changes an
\* element of returns_array.
C9_SourceNeverMutated ==
    [][heap'[ref'["returns_array"]] = heap[ref["returns_array"]]]_vars

\* Every scenario and every run has finished on a sample with a full loss
\* and a win, which scenarios A, C and D rewrite in their copies.
C9_Witness ==
    /\ spc = "end" /\ pc = "returned"
    /\ heap[ref["returns_array"]] = <<-100, 40>>
    /\ heap[ref["returns_a"]] = <<-50, 40>>
    /\ heap[ref["returns_c"]] = <<-100, 60>>
    /\ heap[ref["returns_d"]] = <<-50, 40>>

\* C10: the resampling of lines 299-305 returns, for every source sample of
\* size n and every target rate r, an array of size n whose elements all come
\* from the source and whose share of elements below the cutoff differs from
\* r by less than 1/n.
C10_TailResampleProportion ==
    /\ ~(spc = "B_resample" /\ err # "none")
    /\ spc = "B_run" =>
           LET res == heap[ref["resampled"]]
               n == Len(returns_pct)
               dev == 100 * CountBelow(res, RUG_CUTOFF) - TARGET_RR[rr_i] * n
           IN  /\ Len(res) = n
               /\ \A k \in 1..Len(res) : \E j \in 1..n : res[k] = returns_pct[j]
               /\ -100 < dev /\ dev < 100

\* C11: the array of scenario C has the length of the source; at every
\* position a return > 0 is 1.5 times the source's and a return <= 0 is the
\* source's; so the numbers of wins and of losses are those of the source.
C11_ScaleWinsOnlyWins ==
    Bound("returns_c") =>
        LET c == heap[ref["returns_c"]]
        IN  /\ Len(c) = Len(returns_pct)
            /\ \A k \in 1..Len(c) :
                   /\ returns_pct[k] > 0 => 2 * c[k] = 3 * returns_pct[k]
                   /\ returns_pct[k] <= 0 => c[k] = returns_pct[k]
            /\ Len(wins_of(c)) = Len(wins_of(returns_pct))
            /\ Len(losses_of(c)) = Len(losses_of(returns_pct))

\* A win of 0.40 is scaled to 0.60 after a full loss that is kept.
C11_Witness ==
    /\ spc = "C_run"
    /\ returns_pct = <<-100, 40>>
    /\ heap[ref["returns_c"]] = <<-100, 60>>

\* Phase 5 has run to its end.
Phase5Done == kpc \in {"cal", "phase6", "done"}

\* The share of the trades that are not wins, the share of the returns below
\* -0.90, and floor(bankroll / position_size) for 0.116 and 0.015.
LossRate == Q(Len(losses_of(all_pnl(rows))), Len(rows))
RugRate == Q(CountBelow(returns_pct, RUG_CUTOFF), Len(returns_pct))
MaxRugs == 116 \div 15

\* The table has the rows 1..MaxRugs + 1 and row n holds rate ^ n and its
\* reciprocal.
TableOf(rate) ==
    /\ DOMAIN rug_table = 1..(MaxRugs + 1)
    /\ \A n \in DOMAIN rug_table :
           /\ rug_table[n].pr = Q(rate.n ^ n, rate.d ^ n)
           /\ rate.n # 0 /\ rug_table[n].one_in = Q(rate.d ^ n, rate.n ^ n)

\* C17 as claimed: the consecutive-loss table lists, for n = 1 ..
\* floor(bankroll / position_size) + 1 and no other n, lossRate ^ n and its
\* reciprocal, lossRate being the share of the trades that are not wins.
C17_TableOfLossRate == Phase5Done => TableOf(LossRate)

\* C17 as amended: the table lists, for n = 1 .. floor(bankroll /
\* position_size) + 1 and no other n, rugRate ^ n and its reciprocal, rugRate
\* being the share of the returns below -0.90.
C17_TableOfRugRate == Phase5Done => TableOf(RugRate)

\* A ledger with a full loss, a loss of half the stake and a win: one return
\* in three is below -0.90 and two trades in three are not wins.
C17_Witness ==
    /\ Phase5Done
    /\ rows = <<(<<-1, 1>>), (<<-1, 2>>), (<<1, 1>>)>>
    /\ Len(rug_table) = 8
    /\ rug_table[2].pr = Q(1, 9) /\ rug_table[2].one_in = Q(9, 1)
    /\ LossRate = Q(2, 3)

\* C18: for every sample with a non-zero average loss, phase 5 evaluates the
\* gambler's-ruin formula exactly when the Kelly edge p * b - q is > 0, and
\* takes the negative-edge branch otherwise: p * avg_win + q * avg_loss > 0
\* if and only if p * b - q > 0.
C18_RuinFormulaIffKellyEdge ==
    (Phase5Done /\ avg_loss.n # 0) =>
        /\ ruin_branch = "formula" <=> Gt0(kelly_edge)
        /\ ruin_branch = "negative" <=> ~Gt0(kelly_edge)

\* ---- the bankroll search (claims C12 to C16)
SearchReported == cpc = "reported"
SearchSample == heap[ref["returns_array"]]

\* The number of the Len(arr)^k equally likely draw sequences on which a path
\* that starts at bankroll x with position ps is bankrupt within k trades.
RECURSIVE RuinCount(_, _, _, _)
RuinCount(x, k, ps, arr) ==
    IF k = 0 THEN 0
    ELSE SumSeq([j \in 1..Len(arr) |->
                    LET y == IF x >= ps THEN x + pnls(arr[j], ps) ELSE x
                    IN  IF y < ps THEN Len(arr) ^ (k - 1)
                        ELSE RuinCount(y, k - 1, ps, arr)])

\* The engine's bankruptcy probability at bankroll x, as a count over
\* Len(SearchSample)^MaxTrades, and its comparisons with the target.
ExactRuin(x, ps) == RuinCount(x, MaxTrades, ps, SearchSample)
ExactBelow(x, ps) ==
    100 * ExactRuin(x, ps) < TARGET_PCT * Len(SearchSample) ^ MaxTrades
ExactAbove(x, ps) ==
    100 * ExactRuin(x, ps) > TARGET_PCT * Len(SearchSample) ^ MaxTrades

\* Every probe of the search passed or failed as the exact probability at its
\* bankroll does: a search undisturbed by sampling noise.
FaithfulProbes ==
    \A i \in 1..Len(probes) :
        below_target(probes[i].pb) <=> ExactBelow(probes[i].mid, cal_ps)

\* C12: the search reports 'no safe bankroll' exactly when the bankruptcy
\* probability at the upper limit of the bracket is not below the target, and
\* a calibrated bankroll exactly when it is.
C12_NoSafeIffUpperLimitFails ==
    (SearchReported /\ FaithfulProbes)
        => (report.kind = "no safe bankroll" <=> ~ExactBelow(HI_BR, cal_ps))

\* C13: a reported calibrated bankroll is the final hi_br, which is the
\* midpoint of the most recent probe whose p_bankruptcy was strictly below
\* the target; it is not the initial upper bound and lies in the bracket
\* [5 * ps, upper limit].
C13_ReportedIsLastPassingProbe ==
    (cpc \in {"probe", "update", "report", "reported"} /\ found)
        => /\ \E i \in 1..Len(probes) :
                /\ probes[i].mid = hi_br
                /\ below_target(probes[i].pb)
                /\ \A j \in (i + 1)..Len(probes) : ~below_target(probes[j].pb)
           /\ hi_br # HI_BR
           /\ LO_FACTOR * cal_ps <= hi_br /\ hi_br <= HI_BR
           /\ SearchReported
                => /\ report.kind = "min bankroll"
                   /\ report.value = hi_br

\* A search reported a bankroll whose probe was followed by a failing one.
C13_Witness ==
    /\ SearchReported
    /\ report.kind = "min bankroll"
    /\ Len(probes) = CalIters
    /\ below_target(probes[1].pb)
    /\ ~below_target(probes[Len(probes)].pb)
    /\ report.value = probes[1].mid

\* C14: among the probes of one search, a probe at a larger bankroll never
\* reports a larger p_bankruptcy than a probe at a smaller bankroll.
C14_ProbesNonIncreasing ==
    \A i, j \in 1..Len(probes) :
        probes[i].mid < probes[j].mid
            => probes[j].pb.num * probes[i].pb.den
                   <= probes[i].pb.num * probes[j].pb.den

\* C15: at a reported calibrated bankroll B the bankruptcy probability is at
\* most the target, and at B / 2 it exceeds the target.  (Halving the bankroll
\* is doubling the position: the engine compares sums of multiples of ps.)
C15_HalfBankrollFails ==
    (SearchReported /\ report.kind = "min bankroll" /\ FaithfulProbes)
        => /\ ~ExactAbove(report.value, cal_ps)
           /\ ExactAbove(report.value, 2 * cal_ps)

\* C16: with an edge p*b - q <= 0 the search still runs all its probes, and
\* its report carries the negative-expectancy note exactly when the edge is
\* <= 0, whether or not a bankroll was found.
C16_NoteIffEdgeNonPositive ==
    SearchReported
        => /\ Len(probes) = CalIters
           /\ report.note = "strategy -EV" <=> Le0(kelly_edge)

\* C19: a call with a pos_size that is not positive is rejected with an
\* exception before any path is simulated, and returns no result.
C19_NonPositiveSizeRejected ==
    (pc # "idle" /\ pos_size <= 0) => (pc = "raised" /\ err # "none")

\* ---- independence of the paths (claim C20)
\* Lines 220-227 for one path alone: its bankroll, flag and minimum after an
\* iteration in which it sampled the return r.
path_step(st, r, ps) ==
    LET alive == ~st.bankrupt /\ st.bankroll >= ps
        br == IF alive THEN st.bankroll + pnls(r, ps) ELSE st.bankroll
        bk == st.bankrupt \/ (~st.bankrupt /\ br < ps)
    IN  [bankroll |-> br, bankrupt |-> bk,
         min |-> IF ~bk THEN Min2(st.min, br) ELSE st.min]

PathStates(br, bk, mb) ==
    [i \in Paths |-> [bankroll |-> br[i], bankrupt |-> bk[i], min |-> mb[i]]]

\* The paths of rest updated one at a time, whichever of them comes next,
\* each update reading the state vector as the updates before it left it:
\* every order ends in the state vector want.
RECURSIVE AnyOrder(_, _, _, _)
AnyOrder(sts, rest, col, want) ==
    IF rest = {} THEN sts = want
    ELSE \A i \in rest :
             AnyOrder([sts EXCEPT ![i] =
                          path_step(sts[i], heap[returns][col[i]], pos_size)],
                      rest \ {i}, col, want)

\* The sampled returns (as indices) with which the per-path update takes
\* each path from its state in old to its state in new.
OwnDraws(old, new) ==
    [i \in Paths |-> {k \in 1..Len(heap[returns]) :
                        new[i] = path_step(old[i], heap[returns][k], pos_size)}]

\* C20: an iteration's bulk update is, for one sampled return per path, what
\* the per-path update gives when applied to the paths in any order, so the
\* new state of a path is a function of its own state and its own sampled
\* return; terminal aggregation changes a path's bankroll by its own flag.
C20_PathsDoNotInteract ==
    [][/\ pc = "loop" =>
            \E old \in {PathStates(bankrolls, bankrupt, min_br)} :
            \E new \in {PathStates(bankrolls', bankrupt', min_br')} :
            \E own \in {OwnDraws(old, new)} :
                /\ \A i \in Paths : own[i] # {}
                /\ \E col \in {[i \in Paths |-> CHOOSE k \in own[i] : TRUE]} :
                       AnyOrder(old, Paths, col, new)
       /\ pc = "agg" =>
            \A i \in Paths :
                /\ bankrolls'[i] = IF bankrupt[i] THEN 0 ELSE bankrolls[i]
                /\ bankrupt'[i] = bankrupt[i]]_vars

\* Two paths of one call after two iterations: the first was absorbed by
\* iteration 0 at 0.5 units, the second has won twice.
C20_Witness ==
    /\ InCall /\ n_sims = 2 /\ t = 2
    /\ heap[returns] = <<-50, 50>> /\ initial_br = 100 /\ pos_size = 100
    /\ bankrupt[1] /\ bankrolls[1] = 50
    /\ ~bankrupt[2] /\ bankrolls[2] = 200

\* ---- the steps of the bankroll search (claims C21, C22, C28)
Searching == cpc \in {"probe", "update", "report", "reported"}

\* C21: an iteration probes the midpoint of [lo_br, hi_br]; a p_bankruptcy
\* strictly below the target moves hi_br to the midpoint and leaves lo_br,
\* any other p_bankruptcy, the target itself included, moves lo_br to the
\* midpoint and leaves hi_br.
C21_ProbeMovesOneBound ==
    [][/\ cpc = "probe" => mid_br' = (lo_br + hi_br) \div 2
                            /\ 2 * mid_br' = lo_br + hi_br
                            /\ initial_br' = mid_br'
       /\ cpc = "update" =>
            IF 100 * result.p_bankruptcy.num < TARGET_PCT * result.p_bankruptcy.den
            THEN hi_br' = mid_br /\ lo_br' = lo_br
            ELSE lo_br' = mid_br /\ hi_br' = hi_br]_vars

\* A probe returned exactly the target, 1 / 20, and the lower bound moved.
C21_Witness ==
    /\ cpc = "probe" /\ Len(probes) = 1
    /\ probes[1].pb = [num |-> 1, den |-> ProbeSims]
    /\ lo_br = probes[1].mid /\ hi_br = HI_BR /\ ~found

\* Exact sums, differences and comparisons of finite floats.
XAdd(x, y) == Q(x.n * y.d + y.n * x.d, x.d * y.d)
XSub(x, y) == Q(x.n * y.d - y.n * x.d, x.d * y.d)
XLe(x, y) == x.n * y.d <= y.n * x.d

\* The bracket after an iteration is one half of the bracket before it, its
\* bounds stay within [5 * ps, 5.0] and the probed bankroll is >= ps.
BracketKept ==
    /\ \/ lo_br' = mid_br /\ hi_br' = hi_br
       \/ lo_br' = lo_br /\ hi_br' = mid_br
    /\ XLe(FMul(cal_ps, FIVE), lo_br') /\ XLe(lo_br', hi_br') /\ XLe(hi_br', FIVE)
    /\ XLe(cal_ps, mid_br)
    /\ cal_it' = cal_it + 1 /\ cal_it' <= CalIters

\* C22 as stated: the search ends after exactly CalIters probes, its bounds
\* stay ordered within [5 * ps, 5.0], every probed bankroll is >= ps, and
\* each probe halves the width hi_br - lo_br exactly.
C22_WidthHalvedExactly ==
    [][/\ cpc = "update" =>
            /\ BracketKept
            /\ XAdd(XSub(hi_br', lo_br'), XSub(hi_br', lo_br')) = XSub(hi_br, lo_br)
       /\ cpc = "report" => Len(probes) = CalIters]_vars

\* C22, amended: as above, but the probed midpoint is the float sum
\* lo_br + hi_br halved, so that the two halves of the bracket differ by the
\* rounding of the sum, at most 2^-FloatBits of it.
C22_WidthHalvedUpToRounding ==
    [][/\ cpc = "update" =>
            /\ BracketKept
            /\ LET sum == XAdd(lo_br, hi_br)
                   off == XSub(XAdd(mid_br, mid_br), sum)
               IN  AbsInt(off.n) * sum.d * 2 ^ FloatBits <= sum.n * off.d
       /\ cpc = "report" => Len(probes) = CalIters]_vars

\* The first probe for ps = 0.005 was at a midpoint that is not half the sum
\* of the bounds, and the search went on to its report.
C22_Witness ==
    /\ cpc = "reported" /\ cal_ps = BracketPositions[1]
    /\ Len(probes) = CalIters
    /\ XAdd(probes[1].mid, probes[1].mid) # XAdd(FMul(cal_ps, FIVE), FIVE)

\* C23: min_br of a path starts at initial_br and an iteration lowers it to
\* the path's new bankroll exactly when the path is not bankrupt after the
\* iteration.  Hence it never grows, is <= the bankroll of every path that is
\* not bankrupt, is held by the iteration that absorbs the path (whose balance
\* below pos_size is not recorded) and by every later one; a value below
\* pos_size can only be initial_br itself.
C23_MinTrackedWhileAlive ==
    [][/\ (pc \in {"idle", "returned"} /\ pc' = "loop") =>
            \A i \in 1..n_sims' : min_br'[i] = initial_br'
       /\ pc = "loop" =>
            \A i \in Paths :
                /\ min_br'[i] = IF ~bankrupt'[i] THEN Min2(min_br[i], bankrolls'[i])
                                 ELSE min_br[i]
                /\ min_br'[i] <= min_br[i]
                /\ ~bankrupt'[i] => min_br'[i] <= bankrolls'[i]
                /\ bankrupt'[i] => min_br'[i] = min_br[i]
                /\ min_br'[i] >= pos_size \/ min_br'[i] = initial_br
       /\ pc = "agg" => min_br' = min_br]_vars

\* The only return is -50: from 2 units the path holds 1.5 and then 1 unit,
\* and iteration 2 absorbs it at 0.5 units, which min_br does not record.
C23_Witness ==
    /\ pc = "agg" /\ t = 3
    /\ heap[returns] = <<-50>> /\ initial_br = 200 /\ pos_size = 100
    /\ bankrupt[1] /\ bankrolls[1] = 50 /\ min_br[1] = 100

\* C24: in a call on a sample whose returns are all >= -100% with
\* initial_br >= pos_size > 0, the bankroll of every path is >= 0 in every
\* state, the balance at which a path is absorbed included.
C24_BankrollNeverNegative ==
    (/\ InCall
     /\ \A k \in 1..Len(heap[returns]) : heap[returns][k] >= -100
     /\ initial_br >= pos_size /\ pos_size > 0)
        => \A i \in Paths : bankrolls[i] >= 0

\* A path that held exactly pos_size lost all of it and is absorbed at 0,
\* inside the loop.
C24_Witness ==
    /\ pc = "loop" /\ t = 1
    /\ heap[returns] = <<-100>> /\ initial_br = 100 /\ pos_size = 100
    /\ bankrupt[1] /\ bankrolls[1] = 0

\* C25: after every iteration a path that is not marked bankrupt holds at
\* least pos_size, so that from then on the alive mask of line 220 is
\* ~bankrupt; with initial_br < pos_size iteration 0 marks every path and
\* updates none.
C25_UnmarkedPathsAreFunded ==
    [][pc = "loop" =>
        \A i \in Paths :
            /\ ~bankrupt'[i] => bankrolls'[i] >= pos_size
            /\ still_alive(bankrupt', bankrolls', pos_size)[i] <=> ~bankrupt'[i]
            /\ (t = 0 /\ initial_br < pos_size)
                    => /\ bankrupt'[i]
                       /\ bankrolls'[i] = initial_br
                       /\ min_br'[i] = initial_br]_vars

\* Two paths started below pos_size: iteration 0 marked both and left their
\* bankrolls.
C25_Witness ==
    /\ pc = "loop" /\ t = 1 /\ n_sims = 2
    /\ initial_br = 50 /\ pos_size = 100
    /\ \A i \in Paths : bankrupt[i] /\ bankrolls[i] = 50

\* C26: a call with initial_br > 0 returns p_double <= p_profit and
\* p_bankruptcy + p_profit <= 1; no path is both bankrupt and above
\* initial_br, and each of the three is k / n_sims with 0 <= k <= n_sims.
C26_ResultProbabilitiesConsistent ==
    (pc = "returned" /\ initial_br > 0)
        => /\ \A f \in {result.p_bankruptcy, result.p_profit, result.p_double} :
                f.den = n_sims /\ f.num \in 0..n_sims
           /\ result.p_double.num <= result.p_profit.num
           /\ result.p_bankruptcy.num + result.p_profit.num <= n_sims
           /\ \A i \in Paths : ~(bankrupt[i] /\ bankrolls[i] > initial_br)

\* Of two paths one was absorbed and the other more than doubled; a second
\* case is a path that ends above initial_br and below twice initial_br.
C26_Witness ==
    /\ pc = "returned" /\ n_sims = 2
    /\ result.p_bankruptcy.num = 1
    /\ result.p_profit.num = 1
    /\ result.p_double.num = 1

\* C27: of two calls with the same sampled matrix and pos_size, the path
\* started at the larger initial_br is bankrupt at the end only if the one
\* started at the smaller is, and is not marked by an earlier iteration; the
\* bankrupt paths of the larger start are among those of the smaller.
C27_BankruptcyMonotoneInBankroll ==
    Len(calls) = 2 =>
        LET small == calls[1]
            large == calls[2]
        IN  /\ small.initial_br < large.initial_br
            /\ small.idx = large.idx /\ small.pos_size = large.pos_size
            /\ \A i \in DOMAIN large.bankrupt :
                   large.bankrupt[i]
                       => /\ small.bankrupt[i]
                          /\ small.absorbed[i] <= large.absorbed[i]
            /\ large.result.p_bankruptcy.num <= small.result.p_bankruptcy.num

\* Both starts are absorbed, the larger one two iterations later.
C27_Witness ==
    /\ Len(calls) = 2
    /\ calls[1].initial_br = 100 /\ calls[2].initial_br = 200
    /\ calls[1].pos_size = 100
    /\ calls[1].absorbed = <<1>> /\ calls[2].absorbed = <<3>>

\* The probes of the search passed exactly at the bankrolls >= T.
Thresholded(T) ==
    \A i \in 1..Len(probes) : below_target(probes[i].pb) <=> probes[i].mid >= T

\* The largest midpoint the search can probe: the last one when every probe
\* fails.
LargestMid == HI_BR - (HI_BR - LO_FACTOR * cal_ps) \div 2 ^ CalIters

\* After the search the threshold T is located: lo_br < T <= hi_br, a
\* bankroll is reported, and it exceeds T by less than the width of the
\* first bracket divided by 2^CalIters.
Located(T) ==
    /\ lo_br < T /\ T <= hi_br
    /\ report.kind = "min bankroll"
    /\ (report.value - T) * 2 ^ CalIters < HI_BR - LO_FACTOR * cal_ps

\* C28 as stated: a search whose probes pass exactly from a threshold T on,
\* T at most the largest midpoint, locates T.
C28_ThresholdLocated ==
    SearchReported
        => \A T \in 1..LargestMid : Thresholded(T) => Located(T)

\* C28, amended: a threshold T above the lower end 5 * ps of the bracket and
\* at most the largest midpoint is located in the last bracket: lo_br < T <=
\* hi_br, hi_br is reported, and it exceeds T by less than the width
\* hi_br - lo_br of that bracket.
C28_ThresholdInBracketLocated ==
    SearchReported
        => \A T \in (LO_FACTOR * cal_ps + 1)..LargestMid :
               Thresholded(T)
                   => /\ lo_br < T /\ T <= hi_br
                      /\ report.kind = "min bankroll" /\ report.value = hi_br
                      /\ report.value - T < hi_br - lo_br

\* A search with a failing and a passing probe, consistent with a threshold
\* inside the bracket, has reported.
C28_Witness ==
    /\ SearchReported
    /\ \E T \in (LO_FACTOR * cal_ps + 1)..LargestMid : Thresholded(T)
    /\ \E i, j \in 1..Len(probes) :
           below_target(probes[i].pb) /\ ~below_target(probes[j].pb)

\* C29: the resampling of scenario B (lines 299-305) and of scenario D
\* (lines 315-323) raises for no source sample, whether or not the sample has
\* a return below the cutoff or a return at or above it.
C29_ResampleNeverRaises ==
    spc \in {"B_resample", "B_run", "D", "D_run"} => err = "none"


\* x ** y > 1 for x >= 0: the power of a base above 1 to an exponent above 0;
\* every other power of a base >= 0 lies in [0, 1] or is nan.
AboveOne(x) == ~IsNaN(x) /\ x.n > 0 /\ x.n > x.d
PowAboveOne(pw) == AboveOne(pw.base) /\ Gt0(pw.exp)
PowIsNaN(pw) == IsNaN(pw.base) \/ IsNaN(pw.exp)

\* C30: whenever the gambler's-ruin branch is taken, the ruin value
\* (q / p) ** (bankroll / abs(avg_loss)) of line 378 is a probability: it is
\* not nan, it is at least 0 and it is at most 1, also when the loss rate q
\* is above the win rate p.  The base q / p is never negative, so the value
\* is never below 0; this fails where q > p and the edge is positive.
C30_RuinIsProbability ==
    ruin_branch = "formula" => ~PowIsNaN(ruin) /\ ~PowAboveOne(ruin)
====
